---- MODULE Spec2Model ----
(***************************************************************************)
(* The agent run loop of computer-agent: Store.run_agent / Store.stop_run /  *)
(* Store.set_ai_provider (src/src/store.py), driven by the MainWindow       *)
(* handlers (src/src/window.py) on the UI thread and by AgentThread worker  *)
(* threads, with the OpenAI-style adapter (src/src/openai_provider.py) and  *)
(* the Anthropic-style adapter (src/src/anthropic.py for get_next_action).  *)
(*                                                                         *)
(* Threads interleave at the granularity of one Python statement that       *)
(* reads or writes a Store attribute.                                       *)
(***************************************************************************)
EXTENDS Integers, Sequences, FiniteSets, TLC

\* ------------------------------------------------------------------ bounds
MaxWorkers == 2     \* AgentThread objects alive at the same time
MaxStarts == 2      \* MainWindow.run_agent invocations explored
MaxUICalls == 1     \* UI-thread calls explored that meet a run: stop_run, set_ai_provider,
                    \* and run_agent while another run_agent call is active
MaxTurns == 3       \* get_next_action calls (requests to the remote model) explored

\* ------------------------------------------------------------ plain values
None == "None"
Absent == "absent"

Workers == 1..MaxWorkers
ProviderNames == {"anthropic", "openai"}
Instructions == {"search for cats", "open settings"}

StoppedText == "Agent run stopped by user."
SuccessText == "Task completed successfully."
NoProviderText == "Error: AI provider not initialized"
ScreenshotText == "base64 PNG screenshot"

\* ------------------------------------------------ tool-call argument payloads
\* tool_call.function.arguments is a JSON text.  json |-> "invalid" is a text
\* json.loads rejects, "nonobject" one it parses to something that is no dict
\* (a list, a number, null), "object" a dict whose keys are listed in has.
\* coordinate: shape "list" (items are its elements), "number" or "null".
MkArgs(json, has, action, shape, items, text, success, err) ==
    [json |-> json, has |-> has, action |-> action,
     coordinate |-> [shape |-> shape, items |-> items],
     text |-> text, success |-> success, error |-> err]

ArgsInvalid == MkArgs("invalid", {}, Absent, Absent, <<>>, Absent, FALSE, Absent)
ArgsNonObject == MkArgs("nonobject", {}, Absent, Absent, <<>>, Absent, FALSE, Absent)
ArgsEmpty == MkArgs("object", {}, Absent, Absent, <<>>, Absent, FALSE, Absent)
ArgsAction(a) == MkArgs("object", {"action"}, a, Absent, <<>>, Absent, FALSE, Absent)
ArgsCoord(a, shape, items) ==
    MkArgs("object", {"action", "coordinate"}, a, shape, items, Absent, FALSE, Absent)
ArgsText(a, t) == MkArgs("object", {"action", "text"}, a, Absent, <<>>, t, FALSE, Absent)
ArgsFinish(success, err) ==
    MkArgs("object", IF err = Absent THEN {"success"} ELSE {"success", "error"},
           Absent, Absent, <<>>, Absent, success, err)

ToolCall(id, name, args) == [id |-> id, name |-> name, arguments |-> args]

\* A raw provider response: a ChatCompletionMessage (kind "openai") or a
\* BetaMessage (kind "anthropic").  content is the free text ("" for none).
Message(kind, content, calls) == [kind |-> kind, content |-> content, tool_calls |-> calls]
NoMessage == Message(None, "", <<>>)

\* ------------------------------------------------------------------ actions
\* The dict extract_action returns; has lists the keys it carries beside type.
MkAction(type, has, x, y, text, message, success, err) ==
    [type |-> type, has |-> has, x |-> x, y |-> y, text |-> text,
     message |-> message, success |-> success, error |-> err]
NoAction == MkAction(None, {}, 0, 0, Absent, Absent, FALSE, Absent)
ErrorAction(m) == MkAction("error", {"message"}, 0, 0, Absent, m, FALSE, Absent)
FinishBare == MkAction("finish", {}, 0, 0, Absent, Absent, FALSE, Absent)
FinishAction(success, err) ==
    MkAction("finish", {"success", "error"}, 0, 0, Absent, Absent, success, err)
PlainAction(t) == MkAction(t, {}, 0, 0, Absent, Absent, FALSE, Absent)
CoordAction(t, x, y) == MkAction(t, {"x", "y"}, x, y, Absent, Absent, FALSE, Absent)
TextAction(t, text) == MkAction(t, {"text"}, 0, 0, text, Absent, FALSE, Absent)

\* A call's outcome: a returned value or a raised exception.
Returned(v) == [raised |-> FALSE, value |-> v, exc |-> None]
Raised(v, e) == [raised |-> TRUE, value |-> v, exc |-> e]

CoordinateTypes == {"mouse_move", "left_click_drag"}
PlainTypes == {"left_click", "right_click", "middle_click", "double_click",
               "screenshot", "cursor_position"}
TextTypes == {"type", "key"}
ActionTypes == CoordinateTypes \cup PlainTypes \cup TextTypes

\* OpenAIProvider.extract_action: the first tool call decides (every branch of
\* the loop body returns or raises).
OpenAIExtractCall(tc) ==
    LET args == tc.arguments IN
    IF tc.name = "finish_run" THEN Returned(FinishBare)
    ELSE IF tc.name # "computer"
    THEN Returned(ErrorAction("Unexpected tool: " \o tc.name))
    ELSE IF args.json = "invalid"
    THEN Returned(ErrorAction("Failed to parse tool arguments"))
    ELSE IF args.json = "nonobject"
    THEN Raised(NoAction, "AttributeError: no attribute 'get'")
    ELSE IF args.action \in CoordinateTypes /\ "action" \in args.has
    THEN IF "coordinate" \notin args.has
         THEN Returned(ErrorAction("Invalid coordinate for mouse action"))
         ELSE IF args.coordinate.shape # "list"
         THEN Raised(NoAction, "TypeError: object has no len()")
         ELSE IF Len(args.coordinate.items) # 2
         THEN Returned(ErrorAction("Invalid coordinate for mouse action"))
         ELSE Returned(CoordAction(args.action, args.coordinate.items[1],
                                   args.coordinate.items[2]))
    ELSE IF args.action \in PlainTypes /\ "action" \in args.has
    THEN Returned(PlainAction(args.action))
    ELSE IF args.action \in TextTypes /\ "action" \in args.has
    THEN IF "text" \notin args.has
         THEN Returned(ErrorAction("Missing text for keyboard action"))
         ELSE Returned(TextAction(args.action, args.text))
    ELSE Returned(ErrorAction("Unsupported action: "
                              \o (IF "action" \in args.has THEN args.action ELSE None)))

OpenAIExtractAction(response) ==
    IF response.kind = "openai" /\ Len(response.tool_calls) > 0
    THEN OpenAIExtractCall(response.tool_calls[1])
    ELSE Returned(ErrorAction("No tool use found in message"))

\* OpenAIProvider.display_assistant_message, the loop over message.tool_calls
\* from index i on: out are the strings passed to update_callback so far, last
\* the value of self.last_tool_use_id.  An exception leaves the loop with what
\* was emitted and recorded before it.
RECURSIVE OpenAIDisplayCalls(_, _, _, _)
OpenAIDisplayCalls(calls, i, out, last) ==
    IF i > Len(calls) THEN [raised |-> FALSE, exc |-> None, out |-> out, last |-> last]
    ELSE LET tc == calls[i]
             args == tc.arguments
             coord == args.coordinate
         IN IF args.json = "invalid"
            THEN OpenAIDisplayCalls(calls, i + 1,
                     Append(out, "Assistant action: " \o tc.name \o " - (invalid JSON)"), tc.id)
            ELSE IF tc.name = "computer"
            THEN IF args.json = "nonobject"
                 THEN [raised |-> TRUE, exc |-> "AttributeError: no attribute 'get'",
                       out |-> out, last |-> tc.id]
                 ELSE IF "coordinate" \in args.has /\ coord.shape # "list"
                 THEN [raised |-> TRUE, exc |-> "TypeError: object is not subscriptable",
                       out |-> out, last |-> tc.id]
                 ELSE IF "coordinate" \in args.has /\ Len(coord.items) < 2
                 THEN [raised |-> TRUE, exc |-> "IndexError: list index out of range",
                       out |-> out, last |-> tc.id]
                 ELSE OpenAIDisplayCalls(calls, i + 1,
                          Append(out, "Performed action: "
                                 \o (IF "action" \in args.has THEN args.action ELSE None)),
                          tc.id)
            ELSE IF tc.name = "finish_run"
            THEN OpenAIDisplayCalls(calls, i + 1, Append(out, "Assistant: Task completed! "), tc.id)
            ELSE OpenAIDisplayCalls(calls, i + 1,
                     Append(out, "Assistant action: " \o tc.name), tc.id)

\* OpenAIProvider.display_assistant_message(message, update_callback) on an
\* adapter whose last_tool_use_id is last.  A BetaMessage has no tool_calls
\* attribute; its content is a non-empty list, which is shown as text.
OpenAIDisplayAssistantMessage(message, last) ==
    LET shown == IF message.kind = "anthropic" THEN <<"Assistant: [content blocks]">>
                 ELSE IF message.content # "" THEN <<"Assistant: " \o message.content>>
                 ELSE <<>>
    IN IF message.kind = "openai"
       THEN OpenAIDisplayCalls(message.tool_calls, 1, shown, last)
       ELSE [raised |-> FALSE, exc |-> None, out |-> shown, last |-> last]

\* OpenAIProvider.get_next_action's conversion of run_history: every entry is
\* asked message.get("role"); a raw response object kept in the history is no
\* dict and has no get.
IsDict(entry) == entry.t # "response"
OpenAIHistoryAccepted(history) == \A i \in 1..Len(history) : IsDict(history[i])

\* OpenAIProvider.get_next_action: reply is what the remote model answers,
\* fault a transport or API failure of the request.
OpenAIGetNextAction(history, reply, fault) ==
    IF ~OpenAIHistoryAccepted(history)
    THEN Raised(NoMessage, "OpenAI API Error: object has no attribute 'get'")
    ELSE IF fault THEN Raised(NoMessage, "OpenAI API Error: request failed")
    ELSE Returned(reply)

\* AnthropicClient.get_next_action: BetaMessage entries and dicts are accepted,
\* anything else is an unexpected message type; a reply without a tool_use
\* block gets a synthetic finish_run block carrying its text.
AnthropicHistoryAccepted(history) ==
    \A i \in 1..Len(history) : IsDict(history[i]) \/ history[i].msg.kind = "anthropic"

SyntheticFinish(text) ==
    ToolCall("synthetic_finish", "finish_run",
             ArgsFinish(FALSE, "Claude needs more information: " \o text))

AnthropicGetNextAction(history, reply, fault) ==
    IF ~AnthropicHistoryAccepted(history)
    THEN Raised(NoMessage, "Unexpected error: Unexpected message type")
    ELSE IF fault THEN Raised(NoMessage, "Unexpected error: API Error: request failed")
    ELSE IF Len(reply.tool_calls) = 0
    THEN Returned(Message(reply.kind, reply.content, <<SyntheticFinish(reply.content)>>))
    ELSE Returned(reply)

\* The Anthropic-style adapter's extract_action: the Action Model decoder of
\* the specification applied to the response's first tool_use block.  No
\* exception escapes; every failure is an Error action.
IsCoordinate(c) == c.shape = "list" /\ Len(c.items) = 2

AnthropicDecode(tc) ==
    LET args == tc.arguments IN
    IF tc.name = "finish_run" THEN Returned(FinishAction(args.success, args.error))
    ELSE IF tc.name # "computer"
    THEN Returned(ErrorAction("Unexpected tool: " \o tc.name))
    ELSE IF args.json # "object" \/ "action" \notin args.has \/ args.action \notin ActionTypes
    THEN Returned(ErrorAction("Unsupported action"))
    ELSE IF args.action \in CoordinateTypes
    THEN IF "coordinate" \in args.has /\ IsCoordinate(args.coordinate)
         THEN Returned(CoordAction(args.action, args.coordinate.items[1],
                                   args.coordinate.items[2]))
         ELSE Returned(ErrorAction("Invalid coordinate for mouse action"))
    ELSE IF args.action \in TextTypes
    THEN IF "text" \in args.has
         THEN Returned(TextAction(args.action, args.text))
         ELSE Returned(ErrorAction("Missing text for keyboard action"))
    ELSE Returned(PlainAction(args.action))

AnthropicExtractAction(response) ==
    IF response.kind = "anthropic" /\ Len(response.tool_calls) > 0
    THEN AnthropicDecode(response.tool_calls[1])
    ELSE Returned(ErrorAction("No tool use found in message"))

\* The Anthropic-style adapter's display_assistant_message: the assistant's
\* text and the described tool use are emitted, and the tool use's id becomes
\* last_tool_use_id.  Nothing else changes.
AnthropicDisplayAssistantMessage(message, last) ==
    LET shown == IF message.content # "" THEN <<"Assistant: " \o message.content>> ELSE <<>>
    IN IF message.kind = "anthropic" /\ Len(message.tool_calls) > 0
       THEN [raised |-> FALSE, exc |-> None,
             out |-> Append(shown, "Performed action: " \o message.tool_calls[1].name),
             last |-> message.tool_calls[1].id]
       ELSE [raised |-> FALSE, exc |-> None, out |-> shown, last |-> last]

\* Dispatch on the adapter self.ai_provider refers to.
GetNextAction(provider, history, reply, fault) ==
    IF provider = "openai" THEN OpenAIGetNextAction(history, reply, fault)
    ELSE AnthropicGetNextAction(history, reply, fault)

ExtractAction(provider, response) ==
    IF provider = "openai" THEN OpenAIExtractAction(response)
    ELSE AnthropicExtractAction(response)

DisplayAssistantMessage(provider, message, last) ==
    IF provider = "openai" THEN OpenAIDisplayAssistantMessage(message, last)
    ELSE AnthropicDisplayAssistantMessage(message, last)

\* ComputerControl.perform_action as run_agent sees it: the screenshot (or,
\* for cursor_position, the mapped coordinate pair) it returns, or the
\* exception it raises when the OS automation fails.
PerformAction(action, fault) ==
    IF fault \/ action.type \notin ActionTypes
    THEN Raised(None, "Action failed: " \o action.type \o " - OS automation failure")
    ELSE IF action.type = "cursor_position" THEN Returned("cursor coordinate pair")
    ELSE Returned(ScreenshotText)

\* ------------------------------------------------------------ model replies
\* What the remote model answers to one request.  The Anthropic-style
\* replies carry at most one tool_use block; the computer action asked for is
\* a left_click after an even number of earlier responses and a type after an
\* odd number.
Responses(history) == Cardinality({i \in 1..Len(history) : history[i].t = "response"})

AnthropicStep(history) ==
    IF Responses(history) % 2 = 0
    THEN Message("anthropic", "", <<ToolCall("toolu_click", "computer", ArgsAction("left_click"))>>)
    ELSE Message("anthropic", "", <<ToolCall("toolu_type", "computer", ArgsText("type", "cats"))>>)

AnthropicReplies(history) ==
    { AnthropicStep(history),
      Message("anthropic", "", <<ToolCall("toolu_done", "finish_run", ArgsFinish(TRUE, Absent))>>),
      Message("anthropic", "", <<ToolCall("toolu_fail", "finish_run",
                                          ArgsFinish(FALSE, "could not find the page"))>>),
      Message("anthropic", "", <<ToolCall("toolu_bad", "computer", ArgsAction("type"))>>),
      Message("anthropic", "What should I search for?", <<>>) }

OpenAIReplies ==
    { Message("openai", "", <<ToolCall("call_click", "computer", ArgsAction("left_click"))>>),
      Message("openai", "", <<ToolCall("call_done", "finish_run", ArgsFinish(TRUE, Absent))>>),
      Message("openai", "", <<ToolCall("call_fail", "finish_run",
                                       ArgsFinish(FALSE, "could not find the page"))>>),
      Message("openai", "", <<ToolCall("call_bad", "browser", ArgsEmpty)>>),
      Message("openai", "", <<ToolCall("call_list", "computer", ArgsNonObject)>>),
      Message("openai", "", <<ToolCall("call_cursor", "computer", ArgsAction("cursor_position"))>>),
      Message("openai", "", <<ToolCall("call_a", "computer", ArgsAction("left_click")),
                              ToolCall("call_b", "computer", ArgsText("type", "cats"))>>),
      Message("openai", "What should I search for?", <<>>) }

Replies(provider, history) ==
    IF provider = "openai" THEN OpenAIReplies ELSE AnthropicReplies(history)

\* ---------------------------------------------------------- history entries
Entry(t, role, text, id, msg) == [t |-> t, role |-> role, text |-> text, id |-> id, msg |-> msg]
\* {"role": "user", "content": self.instructions}
SeedEntry(instr) == Entry("instructions", "user", instr, None, NoMessage)
\* the raw response object run_agent appends
ResponseEntry(m) == Entry("response", "assistant", "", None, m)
\* {"role": "user", "content": [{"type": "tool_result", "tool_use_id": id, ...}]}
ToolResultEntry(id, data) == Entry("tool_result", "user", data, id, NoMessage)
\* {"role": "user", "content": [{"type": "text", "text": text}]}
TextEntry(text) == Entry("text", "user", text, None, NoMessage)
StoppedEntry == TextEntry(StoppedText)

\* f"{provider_name.upper()}_API_KEY"
Upper(name) ==
    IF name = "anthropic" THEN "ANTHROPIC"
    ELSE IF name = "openai" THEN "OPENAI"
    ELSE "GEMINI"
EnvVar(name) == Upper(name) \o "_API_KEY"

\* A _create_provider whose message does not say which variable to set.
CreateProvider_NoVariable(name, outcome) ==
    IF outcome = "nokey"
    THEN [provider |-> None, error |-> "No API key found for " \o name \o " provider."]
    ELSE IF outcome = "failed"
    THEN [provider |-> None,
          error |-> "Failed to create " \o name
                    \o " provider. Check that you have the required dependencies installed."]
    ELSE [provider |-> name, error |-> Absent]

\* Store._create_provider: the provider it returns and the value it leaves in
\* self.error (unchanged is Absent).  outcome is what the environment gives:
\* "ok", "nokey" (the API key variable is unset or empty) or "failed" (the
\* registry returned None).
CreateOutcomes == {"ok", "nokey", "failed"}
CreateProvider(name, outcome) ==
    IF outcome = "nokey"
    THEN [provider |-> None,
          error |-> "No API key found for " \o name \o " provider. Please set "
                    \o EnvVar(name) \o " in your .env file."]
    ELSE IF outcome = "failed"
    THEN [provider |-> None,
          error |-> "Failed to create " \o name
                    \o " provider. Check that you have the required dependencies installed."]
    ELSE [provider |-> name, error |-> Absent]

\* ======================================================== ComputerControl
\* Exact rational numbers in lowest terms, for the arithmetic of the
\* coordinate mapping.
RECURSIVE GCD(_, _)
GCD(a, b) == IF b = 0 THEN a ELSE GCD(b, a % b)
Rat(n, d) == LET g == GCD(n, d) IN [n |-> n \div g, d |-> d \div g]
Whole(k) == [n |-> k, d |-> 1]
RatTimesInt(r, k) == LET g == GCD(k, r.d) IN [n |-> r.n * (k \div g), d |-> r.d \div g]
RatOverInt(r, k) == LET g == GCD(r.n, k) IN [n |-> r.n \div g, d |-> r.d * (k \div g)]

\* ai_width, ai_height of map_from_ai_space and map_to_ai_space.
ai_width == 1280
ai_height == 800

\* A variant that scales both axes by the screen width.
MapFromAISpace_WidthOnly(cc, x, y) ==
    <<RatOverInt(RatTimesInt(x, cc.screen_width), ai_width),
      RatOverInt(RatTimesInt(y, cc.screen_width), ai_height)>>

\* map_from_ai_space(x, y): x * screen_width / 1280, y * screen_height / 800,
\* evaluated left to right.
MapFromAISpace(cc, x, y) ==
    <<RatOverInt(RatTimesInt(x, cc.screen_width), ai_width),
      RatOverInt(RatTimesInt(y, cc.screen_height), ai_height)>>

\* map_to_ai_space(x, y): x * 1280 / screen_width, y * 800 / screen_height.
MapToAISpace(cc, x, y) ==
    <<RatOverInt(RatTimesInt(x, ai_width), cc.screen_width),
      RatOverInt(RatTimesInt(y, ai_height), cc.screen_height)>>

\* The pixel the pointer is on after pyautogui was handed the position p.
Pixel(p) == <<p[1].n \div p[1].d, p[2].n \div p[2].d>>

\* One call to the pyautogui module.
OSCall(op, at, text) == [op |-> op, at |-> at, text |-> text]

\* last_click_position before any click was recorded (None in the code, where
\* the test is "if self.last_click_position").
NoPosition == <<>>

\* ComputerControl after __init__ on a screen of the given size, with the
\* pointer at cursor.  Beside screen_width, screen_height and
\* last_click_position the record holds the pointer position, and for the last
\* perform_action call: its action, the pyautogui calls it issued and what it
\* returned; clicked is the pointer position at the most recent click action
\* and steps counts the calls.
NewControl(width, height, cursor) ==
    [screen_width |-> width, screen_height |-> height, last_click_position |-> NoPosition,
     cursor |-> cursor, action |-> NoAction, issued |-> <<>>, result |-> None,
     clicked |-> NoPosition, steps |-> 0]

ClickTypes == {"left_click", "right_click", "middle_click", "double_click"}

\* A variant of the 'type' branch that clicks before every text.
TypeCalls_AlwaysClick(cc, text) ==
    IF cc.last_click_position # NoPosition
    THEN <<OSCall("click", cc.last_click_position, Absent), OSCall("write", Absent, text)>>
    ELSE <<OSCall("write", Absent, text)>>

\* The pyautogui calls of the 'type' branch: a click at last_click_position
\* when one is recorded and the pointer is elsewhere, then the text.
TypeCalls(cc, text) ==
    IF cc.last_click_position # NoPosition /\ cc.cursor # cc.last_click_position
    THEN <<OSCall("click", cc.last_click_position, Absent), OSCall("write", Absent, text)>>
    ELSE <<OSCall("write", Absent, text)>>

\* ComputerControl.perform_action(action) as a function of the control's
\* state: the state after the call.
PerformOn(cc, action) ==
    LET t == action.type
        done == [cc EXCEPT !.action = action, !.steps = cc.steps + 1,
                           !.result = ScreenshotText, !.issued = <<>>]
        target == Pixel(MapFromAISpace(cc, Whole(action.x), Whole(action.y)))
    IN CASE t = "mouse_move" ->
                [done EXCEPT !.cursor = target,
                             !.issued = <<OSCall("moveTo", target, Absent)>>]
         [] t = "left_click" ->
                [done EXCEPT !.issued = <<OSCall("click", Absent, Absent)>>,
                             !.last_click_position = cc.cursor,
                             !.clicked = cc.cursor]
         [] t = "right_click" ->
                [done EXCEPT !.issued = <<OSCall("rightClick", Absent, Absent)>>,
                             !.clicked = cc.cursor]
         [] t = "middle_click" ->
                [done EXCEPT !.issued = <<OSCall("middleClick", Absent, Absent)>>,
                             !.clicked = cc.cursor]
         [] t = "double_click" ->
                [done EXCEPT !.issued = <<OSCall("doubleClick", Absent, Absent)>>,
                             !.last_click_position = cc.cursor,
                             !.clicked = cc.cursor]
         [] t = "left_click_drag" ->
                [done EXCEPT !.cursor = target,
                             !.issued = <<OSCall("dragTo", target, Absent)>>]
         [] t = "type" ->
                LET issued == TypeCalls(cc, action.text) IN
                [done EXCEPT !.issued = issued,
                             !.cursor = IF Len(issued) = 2 THEN cc.last_click_position
                                        ELSE cc.cursor]
         [] t = "key" ->
                [done EXCEPT !.issued = <<OSCall("press", Absent, action.text)>>]
         [] t = "screenshot" -> done
         [] t = "cursor_position" ->
                [done EXCEPT !.result = MapToAISpace(cc, Whole(cc.cursor[1]),
                                                     Whole(cc.cursor[2]))]
         [] OTHER -> [done EXCEPT !.result = None]

\* ---------------------------------------------------------------- the state
VARIABLES
    instructions,           \* Store.instructions
    running,                \* Store.running
    error,                  \* Store.error
    run_history,            \* Store.run_history
    ai_provider,            \* Store.ai_provider: None or the adapter's kind
    current_provider_name,  \* Store.current_provider_name
    last_tool_use_id,       \* last_tool_use_id of the adapter ai_provider refers to
    computer_control,       \* Store.computer_control and the pointer it drives
    pc,                     \* each AgentThread's position in Store.run_agent
    locals,                 \* each worker's message, action, screenshot, exception
    log,                    \* the strings each worker passed to update_callback
    ui,                     \* the UI thread's position: idle or inside a Store call
    calls,                  \* how often each operation was called so far
    obs                     \* per run_agent call: what happened during it

vars == <<instructions, running, error, run_history, ai_provider, current_provider_name,
          last_tool_use_id, computer_control, pc, locals, log, ui, calls, obs>>

store == <<instructions, running, error, run_history, ai_provider, current_provider_name,
           last_tool_use_id>>

NoLocals == [message |-> NoMessage, action |-> NoAction, screenshot |-> None, exc |-> None]

\* obs[w], the record of worker w's current run_agent call:
\*   turns       get_next_action calls issued
\*   performed   perform_action calls made, ok those that returned
\*   failed      turns that ended in the "Action failed" handler
\*   stops       stop_run calls begun since the call started (also after it returned)
\*   switches    set_ai_provider calls begun since the call started (likewise)
\*   stopped     a stop_run call set running to false while the worker was in
\*               the loop and running was true
\*   after       loop iterations entered (turns), get_next_action calls begun
\*               (calls), perform_action calls made and history entries
\*               appended by the worker after that stop
\*   outcome     how the last turn ended
\*   textOnly    the last reply of the remote model held no tool call
NoObs == [turns |-> 0, performed |-> 0, ok |-> 0, failed |-> 0, stops |-> 0, switches |-> 0,
          stopped |-> FALSE, after |-> [turns |-> 0, calls |-> 0, performed |-> 0, appended |-> 0],
          outcome |-> None, textOnly |-> FALSE]

UIIdle == [op |-> "idle", value |-> None]

LoopPcs == {"L189", "L191", "L192", "L196", "L198", "L202", "L205", "L210",
            "L215", "L218", "L234", "L244", "L247"}
ActivePcs == LoopPcs \cup {"L179", "L184", "L185", "L186"}
Active(w) == pc[w] \in ActivePcs
InLoop(w) == pc[w] \in LoopPcs

\* Store.__init__: the default provider is created from the environment.
Init ==
    /\ instructions = ""
    /\ running = FALSE
    /\ run_history = <<>>
    /\ \E name \in ProviderNames, outcome \in CreateOutcomes :
          LET made == CreateProvider(name, outcome) IN
          /\ current_provider_name = name
          /\ ai_provider = made.provider
          /\ error = IF made.error = Absent THEN None ELSE made.error
    /\ last_tool_use_id = None
    /\ computer_control = NewControl(1280, 800, <<0, 0>>)
    /\ pc = [w \in Workers |-> "idle"]
    /\ locals = [w \in Workers |-> NoLocals]
    /\ log = [w \in Workers |-> <<>>]
    /\ ui = UIIdle
    /\ calls = [run_agent |-> 0, ui |-> 0, get_next_action |-> 0]
    /\ obs = [w \in Workers |-> NoObs]

\* ------------------------------------------------------------ bookkeeping
Count(o, field) == [o EXCEPT ![field] = @ + 1]
CountAfter(o, field) == IF o.stopped THEN [o EXCEPT !.after[field] = @ + 1] ELSE o
Goto(w, label) == pc' = [pc EXCEPT ![w] = label]
Emit(w, texts) == log' = [log EXCEPT ![w] = @ \o texts]
Observe(w, o) == obs' = [obs EXCEPT ![w] = o]
Throw(w, e) == locals' = [locals EXCEPT ![w].exc = e]
NoneTypeError(attr) == "AttributeError: 'NoneType' object has no attribute '" \o attr \o "'"

\* ------------------------------------------------- Store.run_agent, by line
\* run_agent without the provider check: it always goes on to line 184.
CheckProvider_Skipped(w) ==
    /\ pc[w] = "L179"
    /\ Goto(w, "L184")
    /\ UNCHANGED <<computer_control, store, locals, log, ui, calls, obs>>

\* if not self.ai_provider: update_callback(...); return
CheckProvider(w) ==
    /\ pc[w] = "L179"
    /\ IF ai_provider = None
       THEN /\ Emit(w, <<NoProviderText>>)
            /\ Goto(w, "done")
            /\ Observe(w, [obs[w] EXCEPT !.outcome = "no_provider"])
       ELSE /\ Goto(w, "L184")
            /\ UNCHANGED <<log, obs>>
    /\ UNCHANGED <<computer_control, store, locals, ui, calls>>

\* self.running = True
SetRunning(w) ==
    /\ pc[w] = "L184"
    /\ running' = TRUE
    /\ Goto(w, "L185")
    /\ UNCHANGED <<instructions, error, run_history, ai_provider, current_provider_name,
                   computer_control, last_tool_use_id, locals, log, ui, calls, obs>>

\* run_agent without self.error = None.
ClearError_Skipped(w) ==
    /\ pc[w] = "L185"
    /\ Goto(w, "L186")
    /\ UNCHANGED <<computer_control, store, locals, log, ui, calls, obs>>

\* self.error = None
ClearError(w) ==
    /\ pc[w] = "L185"
    /\ error' = None
    /\ Goto(w, "L186")
    /\ UNCHANGED <<instructions, running, run_history, ai_provider, current_provider_name,
                   computer_control, last_tool_use_id, locals, log, ui, calls, obs>>

\* self.run_history = [{"role": "user", "content": self.instructions}]
SeedHistory(w) ==
    /\ pc[w] = "L186"
    /\ run_history' = <<SeedEntry(instructions)>>
    /\ Goto(w, "L189")
    /\ UNCHANGED <<instructions, running, error, ai_provider, current_provider_name,
                   computer_control, last_tool_use_id, locals, log, ui, calls, obs>>

\* A loop that goes on whatever running says (while True).
LoopTest_IgnoresFlag(w) ==
    /\ pc[w] = "L189"
    /\ Goto(w, "L191")
    /\ Observe(w, CountAfter(obs[w], "turns"))
    /\ locals' = [locals EXCEPT ![w] = NoLocals]
    /\ UNCHANGED <<computer_control, store, log, ui, calls>>

\* while self.running:
LoopTest(w) ==
    /\ pc[w] = "L189"
    /\ IF running
       THEN /\ Goto(w, "L191")
            /\ Observe(w, CountAfter(obs[w], "turns"))
       ELSE /\ Goto(w, "done")
            /\ UNCHANGED obs
    /\ locals' = [locals EXCEPT ![w] = NoLocals]
    /\ UNCHANGED <<computer_control, store, log, ui, calls>>

\* message = self.ai_provider.get_next_action(self.run_history)
CallGetNextAction(w) ==
    /\ pc[w] = "L191"
    /\ calls.get_next_action < MaxTurns
    /\ IF ai_provider = None
       THEN /\ Throw(w, NoneTypeError("get_next_action"))
            /\ Goto(w, "L244")
            /\ UNCHANGED <<obs, calls>>
       ELSE \E reply \in Replies(ai_provider, run_history), fault \in BOOLEAN :
               LET r == GetNextAction(ai_provider, run_history, reply, fault) IN
               /\ locals' = [locals EXCEPT ![w].message = r.value, ![w].exc = r.exc]
               /\ Goto(w, IF r.raised THEN "L244" ELSE "L192")
               /\ Observe(w, [CountAfter(Count(obs[w], "turns"), "calls") EXCEPT
                                 !.textOnly = ~r.raised /\ Len(reply.tool_calls) = 0])
               /\ calls' = Count(calls, "get_next_action")
    /\ UNCHANGED <<computer_control, store, log, ui>>

\* self.run_history.append(message)
AppendMessage(w) ==
    /\ pc[w] = "L192"
    /\ run_history' = Append(run_history, ResponseEntry(locals[w].message))
    /\ Goto(w, "L196")
    /\ Observe(w, CountAfter(obs[w], "appended"))
    /\ UNCHANGED <<instructions, running, error, ai_provider, current_provider_name,
                   computer_control, last_tool_use_id, locals, log, ui, calls>>

\* self.ai_provider.display_assistant_message(message, update_callback)
Display(w) ==
    /\ pc[w] = "L196"
    /\ IF ai_provider = None
       THEN /\ Throw(w, NoneTypeError("display_assistant_message"))
            /\ Goto(w, "L244")
            /\ UNCHANGED <<log, last_tool_use_id>>
       ELSE LET d == DisplayAssistantMessage(ai_provider, locals[w].message, last_tool_use_id) IN
            /\ Emit(w, d.out)
            /\ last_tool_use_id' = d.last
            /\ Throw(w, d.exc)
            /\ Goto(w, IF d.raised THEN "L244" ELSE "L198")
    /\ UNCHANGED <<computer_control, instructions, running, error, run_history, ai_provider,
                   current_provider_name, ui, calls, obs>>

\* A branch that lets an error action fall through to perform_action.
Extract_ErrorPerformed(w) ==
    /\ pc[w] = "L198"
    /\ IF ai_provider = None
       THEN /\ Throw(w, NoneTypeError("extract_action"))
            /\ Goto(w, "L244")
            /\ UNCHANGED obs
       ELSE LET r == ExtractAction(ai_provider, locals[w].message) IN
            /\ locals' = [locals EXCEPT ![w].action = r.value, ![w].exc = r.exc]
            /\ Goto(w, IF r.raised THEN "L244"
                       ELSE IF r.value.type = "finish" THEN "L210"
                       ELSE "L215")
            /\ Observe(w, [obs[w] EXCEPT !.outcome =
                              IF r.raised THEN @
                              ELSE IF r.value.type = "error" THEN "error_action"
                              ELSE IF r.value.type = "finish" THEN "finish"
                              ELSE "action"])
    /\ UNCHANGED <<computer_control, store, log, ui, calls>>

\* action = self.ai_provider.extract_action(message), and the branch on
\* action['type'] that follows it
Extract(w) ==
    /\ pc[w] = "L198"
    /\ IF ai_provider = None
       THEN /\ Throw(w, NoneTypeError("extract_action"))
            /\ Goto(w, "L244")
            /\ UNCHANGED obs
       ELSE LET r == ExtractAction(ai_provider, locals[w].message) IN
            /\ locals' = [locals EXCEPT ![w].action = r.value, ![w].exc = r.exc]
            /\ Goto(w, IF r.raised THEN "L244"
                       ELSE IF r.value.type = "error" THEN "L202"
                       ELSE IF r.value.type = "finish" THEN "L210"
                       ELSE "L215")
            /\ Observe(w, [obs[w] EXCEPT !.outcome =
                              IF r.raised THEN @
                              ELSE IF r.value.type = "error" THEN "error_action"
                              ELSE IF r.value.type = "finish" THEN "finish"
                              ELSE "action"])
    /\ UNCHANGED <<computer_control, store, log, ui, calls>>

\* self.error = action['message']; update_callback(f"Error: {self.error}")
RecordError(w) ==
    /\ pc[w] = "L202"
    /\ error' = locals[w].action.message
    /\ Emit(w, <<"Error: " \o locals[w].action.message>>)
    /\ Goto(w, "L205")
    /\ UNCHANGED <<instructions, running, run_history, ai_provider, current_provider_name,
                   computer_control, last_tool_use_id, locals, ui, calls, obs>>

\* self.running = False; break        (the error branch)
StopOnError(w) ==
    /\ pc[w] = "L205"
    /\ running' = FALSE
    /\ Goto(w, "done")
    /\ UNCHANGED <<instructions, error, run_history, ai_provider, current_provider_name,
                   computer_control, last_tool_use_id, locals, log, ui, calls, obs>>

\* The finish branch without self.running = False and break.
FinishRun_LoopsOn(w) ==
    /\ pc[w] = "L210"
    /\ Emit(w, <<SuccessText>>)
    /\ Goto(w, "L189")
    /\ UNCHANGED <<computer_control, store, locals, ui, calls, obs>>

\* update_callback("Task completed successfully."); self.running = False; break
FinishRun(w) ==
    /\ pc[w] = "L210"
    /\ Emit(w, <<SuccessText>>)
    /\ running' = FALSE
    /\ Goto(w, "done")
    /\ UNCHANGED <<instructions, error, run_history, ai_provider, current_provider_name,
                   computer_control, last_tool_use_id, locals, ui, calls, obs>>

\* screenshot = self.computer_control.perform_action(action); a call that
\* raises leaves the control as it was.
Perform(w) ==
    /\ pc[w] = "L215"
    /\ \E fault \in BOOLEAN :
          LET r == PerformAction(locals[w].action, fault) IN
          /\ locals' = [locals EXCEPT ![w].screenshot = r.value, ![w].exc = r.exc]
          /\ Goto(w, IF r.raised THEN "L234" ELSE "L218")
          /\ Observe(w, IF r.raised THEN CountAfter(Count(obs[w], "performed"), "performed")
                        ELSE CountAfter(Count(Count(obs[w], "performed"), "ok"), "performed"))
          /\ computer_control' = IF r.raised THEN computer_control
                                 ELSE PerformOn(computer_control, locals[w].action)
    /\ UNCHANGED <<store, log, ui, calls>>

\* A turn that keeps the screenshot to itself: no tool result is appended.
AppendToolResult_Dropped(w) ==
    /\ pc[w] = "L218"
    /\ Goto(w, "L189")
    /\ Observe(w, [obs[w] EXCEPT !.outcome = "tool_result"])
    /\ UNCHANGED <<computer_control, store, locals, log, ui, calls>>

\* if screenshot: self.run_history.append({... "tool_use_id":
\* self.ai_provider.last_tool_use_id ...}); the screenshot is a non-empty
\* string.  Reading last_tool_use_id of None raises inside the inner try.
AppendToolResult(w) ==
    /\ pc[w] = "L218"
    /\ IF ai_provider = None
       THEN /\ Throw(w, NoneTypeError("last_tool_use_id"))
            /\ Goto(w, "L234")
            /\ UNCHANGED <<run_history, obs>>
       ELSE /\ run_history' = Append(run_history,
                                     ToolResultEntry(last_tool_use_id, locals[w].screenshot))
            /\ Goto(w, "L189")
            /\ Observe(w, [CountAfter(obs[w], "appended") EXCEPT !.outcome = "tool_result"])
            /\ UNCHANGED locals
    /\ UNCHANGED <<instructions, running, error, ai_provider, current_provider_name,
                   computer_control, last_tool_use_id, log, ui, calls>>

\* The inner handler written like the outer one: it ends the run.
ActionFailed_EndsRun(w) ==
    /\ pc[w] = "L234"
    /\ Emit(w, <<"Error: Action failed: " \o locals[w].exc>>)
    /\ run_history' = Append(run_history, TextEntry("Action failed: " \o locals[w].exc))
    /\ running' = FALSE
    /\ Goto(w, "L189")
    /\ Observe(w, [CountAfter(Count(obs[w], "failed"), "appended") EXCEPT
                      !.outcome = "action_failed"])
    /\ UNCHANGED <<computer_control, instructions, error, ai_provider, current_provider_name,
                   last_tool_use_id, locals, ui, calls>>

\* except Exception as action_error: update_callback(...);
\* self.run_history.append({"role": "user", "content": [{"type": "text", ...}]})
ActionFailed(w) ==
    /\ pc[w] = "L234"
    /\ Emit(w, <<"Error: Action failed: " \o locals[w].exc>>)
    /\ run_history' = Append(run_history, TextEntry("Action failed: " \o locals[w].exc))
    /\ Goto(w, "L189")
    /\ Observe(w, [CountAfter(Count(obs[w], "failed"), "appended") EXCEPT
                      !.outcome = "action_failed"])
    /\ UNCHANGED <<instructions, running, error, ai_provider, current_provider_name,
                   computer_control, last_tool_use_id, locals, ui, calls>>

\* The outer handler without self.error = str(e).
CatchException_ErrorKept(w) ==
    /\ pc[w] = "L244"
    /\ Emit(w, <<"Error: " \o locals[w].exc>>)
    /\ Goto(w, "L247")
    /\ Observe(w, [obs[w] EXCEPT !.outcome = "exception"])
    /\ UNCHANGED <<computer_control, store, locals, ui, calls>>

\* except Exception as e: self.error = str(e); update_callback(f"Error: {self.error}")
CatchException(w) ==
    /\ pc[w] = "L244"
    /\ error' = locals[w].exc
    /\ Emit(w, <<"Error: " \o locals[w].exc>>)
    /\ Goto(w, "L247")
    /\ Observe(w, [obs[w] EXCEPT !.outcome = "exception"])
    /\ UNCHANGED <<instructions, running, run_history, ai_provider, current_provider_name,
                   computer_control, last_tool_use_id, locals, ui, calls>>

\* self.running = False; break        (the exception handler)
StopOnException(w) ==
    /\ pc[w] = "L247"
    /\ running' = FALSE
    /\ Goto(w, "done")
    /\ UNCHANGED <<instructions, error, run_history, ai_provider, current_provider_name,
                   computer_control, last_tool_use_id, locals, log, ui, calls, obs>>

\* ------------------------------------------------------------ the UI thread
Free(w) == pc[w] \in {"idle", "done"}
NoActiveRun == \A w \in Workers : ~Active(w)

\* MainWindow.run_agent (the Start button, Ctrl+Return, handle_voice_input):
\* store.set_instructions(instructions); AgentThread(self.store).start()
WindowRunAgent(i) ==
    /\ ui = UIIdle
    /\ calls.run_agent < MaxStarts
    /\ NoActiveRun \/ calls.ui < MaxUICalls
    /\ \E w \in Workers :
          /\ Free(w)
          /\ \A v \in Workers : Free(v) => w <= v
          /\ pc' = [pc EXCEPT ![w] = "L179"]
          /\ locals' = [locals EXCEPT ![w] = NoLocals]
          /\ log' = [log EXCEPT ![w] = <<>>]
          /\ obs' = [obs EXCEPT ![w] = NoObs]
    /\ instructions' = i
    /\ calls' = IF NoActiveRun THEN Count(calls, "run_agent")
                ELSE Count(Count(calls, "run_agent"), "ui")
    /\ UNCHANGED <<running, error, run_history, ai_provider, current_provider_name,
                   computer_control, last_tool_use_id, ui>>

\* The same handler when the previous run_agent call has returned.
SequentialRunAgent(i) == NoActiveRun /\ WindowRunAgent(i)

\* stop_run without its first statement: running is left as it was.
StopRun_KeepsRunning ==
    /\ ui = UIIdle
    /\ calls.ui < MaxUICalls
    /\ ui' = [op |-> "stop_run", value |-> None]
    /\ calls' = Count(calls, "ui")
    /\ obs' = [w \in Workers |->
                 IF pc[w] # "idle"
                 THEN [Count(obs[w], "stops") EXCEPT !.stopped = @ \/ (InLoop(w) /\ running)]
                 ELSE obs[w]]
    /\ UNCHANGED <<computer_control, instructions, running, error, run_history, ai_provider,
                   current_provider_name, last_tool_use_id, pc, locals, log>>

\* Store.stop_run (MainWindow.stop_agent): self.running = False
StopRun ==
    /\ ui = UIIdle
    /\ calls.ui < MaxUICalls
    /\ running' = FALSE
    /\ ui' = [op |-> "stop_run", value |-> None]
    /\ calls' = Count(calls, "ui")
    /\ obs' = [w \in Workers |->
                 IF pc[w] # "idle"
                 THEN [Count(obs[w], "stops") EXCEPT !.stopped = @ \/ (InLoop(w) /\ running)]
                 ELSE obs[w]]
    /\ UNCHANGED <<instructions, error, run_history, ai_provider, current_provider_name,
                   computer_control, last_tool_use_id, pc, locals, log>>

\* Store.stop_run: self.run_history.append({... "Agent run stopped by user."})
StopRunAppend ==
    /\ ui.op = "stop_run"
    /\ run_history' = Append(run_history, StoppedEntry)
    /\ ui' = UIIdle
    /\ UNCHANGED <<instructions, running, error, ai_provider, current_provider_name,
                   computer_control, last_tool_use_id, pc, locals, log, calls, obs>>

\* MainWindow.quit_application: self.store.stop_run() begins as in StopRun.
QuitApplication ==
    /\ ui = UIIdle
    /\ calls.ui < MaxUICalls
    /\ running' = FALSE
    /\ ui' = [op |-> "quit_application", value |-> None]
    /\ calls' = Count(calls, "ui")
    /\ obs' = [w \in Workers |->
                 IF pc[w] # "idle"
                 THEN [Count(obs[w], "stops") EXCEPT !.stopped = @ \/ (InLoop(w) /\ running)]
                 ELSE obs[w]]
    /\ UNCHANGED <<instructions, error, run_history, ai_provider, current_provider_name,
                   computer_control, last_tool_use_id, pc, locals, log>>

\* MainWindow.quit_application: stop_run appends its entry, then
\* QApplication.quit() ends the event loop: no UI handler runs after it, while
\* a worker thread still inside run_agent goes on until the process exits.
QuitStopRunAppend ==
    /\ ui.op = "quit_application"
    /\ run_history' = Append(run_history, StoppedEntry)
    /\ ui' = [op |-> "quit", value |-> None]
    /\ UNCHANGED <<instructions, running, error, ai_provider, current_provider_name,
                   computer_control, last_tool_use_id, pc, locals, log, calls, obs>>

\* Store.set_ai_provider for another provider name: self.current_provider_name
\* = provider_name, then _create_provider runs (it stores its error).
SetAIProvider(name, outcome) ==
    /\ ui = UIIdle
    /\ calls.ui < MaxUICalls
    /\ name # current_provider_name
    /\ LET made == CreateProvider(name, outcome) IN
       /\ current_provider_name' = name
       /\ error' = IF made.error = Absent THEN error ELSE made.error
       /\ ui' = [op |-> "set_ai_provider", value |-> made.provider]
    /\ calls' = Count(calls, "ui")
    /\ obs' = [w \in Workers |-> IF pc[w] # "idle" THEN Count(obs[w], "switches") ELSE obs[w]]
    /\ UNCHANGED <<instructions, running, run_history, ai_provider, last_tool_use_id,
                   computer_control, pc, locals, log>>

\* Store.set_ai_provider: self.ai_provider = <what _create_provider returned>;
\* a new adapter starts with last_tool_use_id = None.
AssignProvider ==
    /\ ui.op = "set_ai_provider"
    /\ ai_provider' = ui.value
    /\ last_tool_use_id' = None
    /\ ui' = UIIdle
    /\ UNCHANGED <<instructions, running, error, run_history, current_provider_name,
                   computer_control, pc, locals, log, calls, obs>>

\* ------------------------------------------------------- the specifications
WorkerStep(w) ==
    \/ CheckProvider(w)
    \/ SetRunning(w)
    \/ ClearError(w)
    \/ SeedHistory(w)
    \/ LoopTest(w)
    \/ CallGetNextAction(w)
    \/ AppendMessage(w)
    \/ Display(w)
    \/ Extract(w)
    \/ RecordError(w)
    \/ StopOnError(w)
    \/ FinishRun(w)
    \/ Perform(w)
    \/ AppendToolResult(w)
    \/ ActionFailed(w)
    \/ CatchException(w)
    \/ StopOnException(w)

UIStep ==
    \/ StopRun
    \/ StopRunAppend
    \/ QuitApplication
    \/ QuitStopRunAppend
    \/ \E name \in ProviderNames, outcome \in CreateOutcomes : SetAIProvider(name, outcome)
    \/ AssignProvider

\* The application: MainWindow.run_agent starts a worker whenever it is invoked.
Next ==
    \/ \E w \in Workers : WorkerStep(w)
    \/ UIStep
    \/ \E i \in Instructions : WindowRunAgent(i)

Spec == Init /\ [][Next]_vars

\* The Store with run_agent calls that do not overlap: each is made after the
\* previous one returned, while stop_run and set_ai_provider come at any time
\* from the other thread.
NextRun ==
    \/ \E w \in Workers : WorkerStep(w)
    \/ UIStep
    \/ \E i \in Instructions : SequentialRunAgent(i)

SpecRun == Init /\ [][NextRun]_vars

\* ================================================================== claims
Last(h) == h[Len(h)]
IsPrefix(h, g) == Len(h) <= Len(g) /\ \A i \in 1..Len(h) : g[i] = h[i]
Markers(h) == Cardinality({i \in 1..Len(h) : h[i] = StoppedEntry})

\* C1: when stop_run is called once while a run is active (running is true
\* and the worker is inside run_agent's loop), the worker enters no further
\* loop iteration after the turn that was in flight, and once the worker and
\* stop_run have both returned, running is false and the history holds
\* exactly one "Agent run stopped by user." entry.
C1_StopObserved ==
    \A w \in Workers :
        (obs[w].stopped /\ obs[w].stops = 1) =>
            /\ obs[w].after.turns = 0
            /\ (pc[w] = "done" /\ ui.op \in {"idle", "quit"}) =>
                   (~running /\ Markers(run_history) = 1)

\* A run stopped in the middle of a turn: the in-flight turn appended its
\* response after the marker, and the worker then left the loop.
C1_Witness ==
    \E w \in Workers :
        /\ obs[w].stopped /\ obs[w].stops = 1
        /\ pc[w] = "done" /\ ui = UIIdle
        /\ obs[w].after.appended >= 1
        /\ Markers(run_history) = 1

\* C2: when perform_action raises for a non-terminal action and stop_run is
\* not called, the worker is back at the loop test with running still true and
\* a plain user text entry "Action failed: ..." as the last history entry, so
\* the loop issues another get_next_action call; when extract_action returned
\* an action of type 'error', the worker only runs the error branch and
\* returns: it issues no further get_next_action call and running ends false.
C2_FailureContinuesErrorEnds ==
    \A w \in Workers :
        /\ (obs[w].outcome = "action_failed" /\ pc[w] = "L189" /\ obs[w].stops = 0) =>
               /\ running
               /\ Last(run_history) = TextEntry("Action failed: " \o locals[w].exc)
               /\ Last(run_history).role = "user"
        /\ (obs[w].outcome = "error_action") =>
               /\ pc[w] \in {"L202", "L205", "done"}
               /\ (pc[w] = "done" /\ ui = UIIdle) => ~running

\* A second get_next_action call has been made after a failed action.
C2_Witness ==
    \E w \in Workers :
        /\ obs[w].failed = 1 /\ obs[w].stops = 0
        /\ obs[w].turns = 2 /\ pc[w] \in {"L192", "L244"}
        /\ run_history[3].t = "text"

\* C3: at most one run loop executes turns at any time, and no run_agent call
\* resets the history while another run_agent call is inside its loop.
C3_OneRunLoop ==
    /\ [](Cardinality({w \in Workers : InLoop(w)}) <= 1)
    /\ [][\A w, v \in Workers :
             (w # v /\ InLoop(w) /\ pc[v] = "L186" /\ pc'[v] = "L189")
                 => run_history' = run_history]_vars

\* C4: from the moment a run_agent call has seeded run_history until it
\* returns, every step leaves the history at least as long and leaves every
\* existing entry in place.
C4_AppendOnly ==
    [][(\E w \in Workers : InLoop(w)) => IsPrefix(run_history, run_history')]_vars

\* C5: a run whose turns were n tool calls that executed successfully and then
\* a finish_run call, with no stop, no failure and no provider change, ends
\* with 2n+2 history entries, running false and error None.
C5_HistoryLength ==
    \A w \in Workers :
        (/\ pc[w] = "done" /\ obs[w].outcome = "finish"
         /\ obs[w].failed = 0 /\ obs[w].stops = 0 /\ obs[w].switches = 0) =>
            /\ obs[w].turns = obs[w].ok + 1
            /\ Len(run_history) = 2 * obs[w].ok + 2
            /\ ~running
            /\ error = None

\* instructions "search for cats"; left_click, type 'cats', finish_run: 6 entries.
C5_Witness ==
    \E w \in Workers :
        /\ pc[w] = "done" /\ obs[w].outcome = "finish" /\ obs[w].ok = 2
        /\ obs[w].failed = 0 /\ obs[w].stops = 0 /\ obs[w].switches = 0
        /\ Len(run_history) = 6
        /\ run_history[1] = SeedEntry("search for cats")
        /\ run_history[2].msg.tool_calls[1].arguments.action = "left_click"
        /\ run_history[3].t = "tool_result"
        /\ run_history[4].msg.tool_calls[1].arguments.text = "cats"
        /\ run_history[5].t = "tool_result"
        /\ run_history[6].msg.tool_calls[1].name = "finish_run"

\* C6: for either adapter, when the remote model's reply holds no tool
\* invocation and the same adapter then decodes what get_next_action returned,
\* extract_action returns a finish action with success = false whose error
\* carries the model's text; it neither returns an error action nor raises.
TextCarried(action, text) ==
    /\ "error" \in action.has
    /\ action.error \in {text, "Claude needs more information: " \o text}

C6_TextOnlyFinishes ==
    \A w \in Workers :
        (/\ obs[w].textOnly /\ obs[w].switches = 0
         /\ pc[w] \in {"L202", "L210", "L215", "L244"}) =>
            /\ pc[w] = "L210"
            /\ locals[w].action.type = "finish"
            /\ "success" \in locals[w].action.has
            /\ ~locals[w].action.success
            /\ TextCarried(locals[w].action, locals[w].message.content)

\* ---------------------------------------------------- extract_action alone
\* One call of extract_action on a response whose first tool call has any of
\* the tool names and argument payloads below; pc "decode" is the call, pc
\* "decoded" its return or raise, held in locals.action and locals.exc.
MaxCoordLen == 3
ToolNames == {"computer", "finish_run", "browser"}
CoordItems(n) == [i \in 1..n |-> IF i = 1 THEN 640 ELSE 400]
\* Pairs of numbers a model can send that lie outside the 1280x800 frame.
OffScreenPairs == {<<2000, 400>>, <<640, 0 - 5>>, <<1281, 801>>}
CoordPayloads ==
    {ArgsCoord(a, "list", CoordItems(n)) : a \in CoordinateTypes, n \in 0..MaxCoordLen}
        \cup {ArgsCoord(a, shape, <<>>) : a \in CoordinateTypes, shape \in {"number", "null"}}
        \cup {ArgsCoord(a, "list", pair) : a \in CoordinateTypes, pair \in OffScreenPairs}
Payloads ==
    {ArgsInvalid, ArgsNonObject, ArgsEmpty}
        \cup {ArgsAction(a) : a \in ActionTypes \cup {"scroll"}}
        \cup CoordPayloads
        \cup {ArgsText(a, "cats") : a \in TextTypes}
        \cup {ArgsFinish(TRUE, Absent), ArgsFinish(FALSE, "could not find the page")}

InitDecode ==
    /\ instructions = "search for cats"
    /\ running = TRUE
    /\ error = None
    /\ ai_provider \in ProviderNames
    /\ current_provider_name = ai_provider
    /\ last_tool_use_id = None
    /\ computer_control = NewControl(1280, 800, <<0, 0>>)
    /\ \E name \in ToolNames, args \in Payloads :
          LET m == Message(ai_provider, "", <<ToolCall("call_1", name, args)>>) IN
          /\ run_history = <<SeedEntry(instructions), ResponseEntry(m)>>
          /\ locals = [w \in Workers |-> IF w = 1 THEN [NoLocals EXCEPT !.message = m]
                                         ELSE NoLocals]
    /\ pc = [w \in Workers |-> IF w = 1 THEN "decode" ELSE "idle"]
    /\ log = [w \in Workers |-> <<>>]
    /\ ui = UIIdle
    /\ calls = [run_agent |-> 1, ui |-> 0, get_next_action |-> 1]
    /\ obs = [w \in Workers |-> NoObs]

Decode ==
    /\ pc[1] = "decode"
    /\ LET r == ExtractAction(ai_provider, locals[1].message) IN
       locals' = [locals EXCEPT ![1].action = r.value, ![1].exc = r.exc]
    /\ pc' = [pc EXCEPT ![1] = "decoded"]
    /\ UNCHANGED <<computer_control, store, log, ui, calls, obs>>

SpecDecode == InitDecode /\ [][Decode]_vars

\* The shapes the action model rejects.
Malformed(tc) ==
    LET args == tc.arguments IN
    \/ args.json # "object"
    \/ /\ tc.name = "computer"
       /\ \/ "action" \notin args.has
          \/ args.action \notin ActionTypes
          \/ args.action \in CoordinateTypes
                 /\ ("coordinate" \notin args.has \/ ~IsCoordinate(args.coordinate))
          \/ args.action \in TextTypes /\ "text" \notin args.has

\* C7: for every tool name and every argument payload, extract_action returns
\* an action and raises nothing, and for every malformed payload the action it
\* returns has type 'error' and a non-empty message.
C7_DecodeTotal ==
    pc[1] = "decoded" =>
        /\ locals[1].exc = None
        /\ locals[1].action.type # None
        /\ Malformed(locals[1].message.tool_calls[1]) =>
               /\ locals[1].action.type = "error"
               /\ locals[1].action.message \notin {Absent, ""}

\* C8: an exception raised by get_next_action, display_assistant_message or
\* extract_action takes run_agent to its outer handler, which sets error to the
\* exception's message, emits "Error: <message>" and sets running to false
\* while appending nothing to the history; run_agent then has returned.
C8_ExceptionCaught ==
    /\ [][\A w \in Workers :
             (pc[w] \in {"L191", "L196", "L198"} /\ locals'[w].exc # None)
                 => pc'[w] = "L244"]_vars
    /\ [][\A w \in Workers :
             (pc[w] = "L244" /\ pc'[w] # "L244")
                 => /\ error' = locals[w].exc
                    /\ log'[w] = Append(log[w], "Error: " \o locals[w].exc)
                    /\ run_history' = run_history]_vars
    /\ [][\A w \in Workers :
             (pc[w] = "L247" /\ pc'[w] # "L247")
                 => (~running' /\ pc'[w] = "done" /\ run_history' = run_history)]_vars
    /\ [](\A w \in Workers :
             (obs[w].outcome = "exception" /\ pc[w] = "done")
                 => /\ ~running
                    /\ locals[w].exc # None
                    /\ Last(log[w]) = "Error: " \o locals[w].exc
                    /\ obs[w].switches = 0 => error = locals[w].exc)

\* A transport failure on the second turn: two entries were appended before
\* it, the handler ran and run_agent returned.
C8_Witness ==
    \E w \in Workers :
        /\ obs[w].outcome = "exception" /\ pc[w] = "done"
        /\ obs[w].turns = 2 /\ obs[w].stops = 0 /\ obs[w].switches = 0
        /\ locals[w].message = NoMessage
        /\ error = locals[w].exc
        /\ Last(log[w]) = "Error: " \o error
        /\ ~running
        /\ Len(run_history) = 3

\* C9: a run_agent call that finds ai_provider None emits the one message
\* "Error: AI provider not initialized" and returns; running, error and
\* run_history are as they were, and no get_next_action or perform_action call
\* was made.
C9_NoProviderNoOp ==
    /\ [][\A w \in Workers :
             (pc[w] = "L179" /\ ai_provider = None /\ pc'[w] # "L179")
                 => /\ pc'[w] = "done"
                    /\ log'[w] = <<NoProviderText>>
                    /\ running' = running
                    /\ error' = error
                    /\ run_history' = run_history]_vars
    /\ [](\A w \in Workers :
             obs[w].outcome = "no_provider"
                 => /\ pc[w] = "done"
                    /\ log[w] = <<NoProviderText>>
                    /\ obs[w].turns = 0
                    /\ obs[w].performed = 0)

\* After a run and a failed provider switch, a second run_agent call returned
\* at once: the first run's history and the switch's error are still there.
C9_Witness ==
    \E w \in Workers :
        /\ obs[w].outcome = "no_provider" /\ pc[w] = "done"
        /\ log[w] = <<NoProviderText>>
        /\ calls.run_agent = 2
        /\ Len(run_history) >= 2
        /\ error # None

\* C10: when a run_agent call with a provider is about to make its first
\* get_next_action call (no stop_run or set_ai_provider call since it began),
\* running is true, error is None and run_history is exactly the one entry
\* {role: user, content: instructions}, whatever the previous run left.
C10_FreshRunState ==
    \A w \in Workers :
        (/\ pc[w] = "L191" /\ obs[w].turns = 0
         /\ obs[w].stops = 0 /\ obs[w].switches = 0) =>
            /\ running
            /\ error = None
            /\ run_history = <<SeedEntry(instructions)>>
            /\ run_history[1].role = "user"

\* The second run, started with other instructions after the first one left
\* its history (and possibly an error) behind.
C10_Witness ==
    \E w \in Workers :
        /\ pc[w] = "L191" /\ obs[w].turns = 0
        /\ obs[w].stops = 0 /\ obs[w].switches = 0
        /\ calls.run_agent = 2 /\ calls.get_next_action >= 1
        /\ run_history = <<SeedEntry("open settings")>>

\* C11: perform_action is never about to be called with an action of type
\* 'error'; a turn whose action is an error action calls perform_action not at
\* all, and when that run_agent call has returned running is false and (no
\* set_ai_provider call having written its own error since) error is the
\* action's message.
C11_ErrorNeverPerformed ==
    \A w \in Workers :
        /\ pc[w] = "L215" => locals[w].action.type # "error"
        /\ obs[w].outcome = "error_action" =>
               /\ locals[w].action.type = "error"
               /\ obs[w].performed < obs[w].turns
               /\ pc[w] = "done" =>
                      /\ ~running
                      /\ obs[w].switches = 0 => error = locals[w].action.message

\* The OpenAI adapter decoded a call of the unknown tool "browser"; the run
\* has ended with that message as its error and nothing was performed.
C11_Witness ==
    \E w \in Workers :
        /\ obs[w].outcome = "error_action" /\ pc[w] = "done"
        /\ obs[w].performed = 0 /\ obs[w].switches = 0
        /\ error = "Unexpected tool: browser"
        /\ ~running

\* What the model asked for in the response's first tool call.
FinishCall(message) ==
    Len(message.tool_calls) > 0 /\ message.tool_calls[1].name = "finish_run"
FinishReportsFailure(message) ==
    /\ FinishCall(message)
    /\ "success" \in message.tool_calls[1].arguments.has
    /\ ~message.tool_calls[1].arguments.success

\* C12: a turn whose action is a finish action (whatever success the model
\* reported) only runs the finish branch: perform_action is not called in that
\* turn, no further get_next_action call follows, and when run_agent has
\* returned running is false.
C12_FinishEndsRun ==
    \A w \in Workers :
        obs[w].outcome = "finish" =>
            /\ pc[w] \in {"L210", "done"}
            /\ obs[w].performed < obs[w].turns
            /\ pc[w] = "done" => ~running

\* The model reported failure with finish_run{success: false}; the run ended
\* in that turn.
C12_Witness ==
    \E w \in Workers :
        /\ obs[w].outcome = "finish" /\ pc[w] = "done"
        /\ FinishReportsFailure(locals[w].message)
        /\ obs[w].turns = 1 /\ obs[w].performed = 0
        /\ ~running

\* C13: the last message a run emits when it ended on finish_run with success
\* = false is neither the message of a finish_run with success = true
\* ("Task completed successfully.") nor the message of an internal-error abort.
C13_FailureMessageDistinct ==
    \A w \in Workers :
        (/\ pc[w] = "done" /\ obs[w].outcome = "finish"
         /\ FinishReportsFailure(locals[w].message)) =>
            /\ Last(log[w]) # SuccessText
            /\ Last(log[w]) # "Error: " \o locals[w].exc

\* C14: whenever a started run_agent call has returned, its last message to
\* update_callback explains the termination: the completion message or an
\* "Error: ..." message.
TerminationMessages(w) ==
    {SuccessText, NoProviderText, "Error: " \o locals[w].exc,
     "Error: " \o locals[w].action.message}

C14_TerminationExplained ==
    \A w \in Workers :
        pc[w] = "done" => (Len(log[w]) > 0 /\ Last(log[w]) \in TerminationMessages(w))

\* C15: when a turn's action was performed without raising and the tool result
\* has just been appended (no stop_run or set_ai_provider call since the run
\* began), the history's last entry is a user entry holding a tool_result
\* whose tool_use_id is the adapter's last_tool_use_id and whose image data is
\* a base64 PNG screenshot, and one entry was appended per performed action.
C15_ToolResultIsScreenshot ==
    \A w \in Workers :
        (/\ obs[w].outcome = "tool_result" /\ pc[w] = "L189"
         /\ obs[w].stops = 0 /\ obs[w].switches = 0) =>
            /\ Last(run_history).t = "tool_result"
            /\ Last(run_history).role = "user"
            /\ Last(run_history).id = last_tool_use_id
            /\ Last(run_history).text = ScreenshotText
            /\ Len(run_history) = 1 + obs[w].turns + obs[w].performed

\* C16: whenever run_history is non-empty its first entry is a user entry
\* holding the instructions of a start, and while a run is inside its loop it
\* holds the instructions of that (the most recent) start.
C16_FirstEntryIsInstructions ==
    Len(run_history) > 0 =>
        /\ run_history[1].t = "instructions"
        /\ run_history[1].role = "user"
        /\ (\E w \in Workers : InLoop(w)) => run_history[1] = SeedEntry(instructions)

\* C17: while a run_agent call is between its start and its return, no step
\* of the UI thread changes run_history.
C17_WorkerOwnsHistory ==
    [][((\E w \in Workers : Active(w)) /\ ui' # ui) => run_history' = run_history]_vars

\* C18: once stop_run has set running to false while the worker was inside
\* the loop, the worker enters no new loop iteration; of the iteration in
\* flight it still begins at most one get_next_action call (when the loop test
\* of line 189 had passed before the stop), performs at most one OS action and
\* appends at most two history entries.
C18_StopWithinOneTurn ==
    \A w \in Workers :
        obs[w].stopped =>
            /\ obs[w].after.turns = 0
            /\ obs[w].after.calls <= 1
            /\ obs[w].after.performed <= 1
            /\ obs[w].after.appended <= 2

\* The stop landed between the loop test and the request: the whole turn ran
\* after it, and then the worker returned.
C18_Witness ==
    \E w \in Workers :
        /\ obs[w].stopped /\ pc[w] = "done"
        /\ obs[w].after.calls = 1
        /\ obs[w].after.performed = 1
        /\ obs[w].after.appended = 2

\* C18 as stated: after the stop the worker begins no get_next_action call at
\* all.
C18_NoCallAfterStop ==
    \A w \in Workers :
        obs[w].stopped =>
            /\ obs[w].after.calls = 0
            /\ obs[w].after.performed <= 1
            /\ obs[w].after.appended <= 2

\* ------------------------------------------------- provider construction alone
\* One call of AIProviderManager.create_provider, or of Store._create_provider,
\* for a provider name and an environment: whether the API key variable is
\* unset, empty or set, whether the openai package is installed, how the
\* import of the provider module ends, whether the constructor raises and what
\* initialize() does.  ui holds the call and, afterwards, its result.
CreateNames == ProviderNames \cup {"gemini"}
KeyStates == {"unset", "empty", "set"}
Environments ==
    [key : KeyStates, package : {"installed", "missing"},
     import : {"ok", "ImportError", "Exception"},
     ctor : {"ok", "raises"}, init : {"true", "false", "raises"}]

\* The try block of one branch of create_provider.
TryCreate(name, env) ==
    IF name = "openai" /\ env.package = "missing" THEN Returned(None)
    ELSE IF env.import # "ok" THEN Raised(None, env.import)
    ELSE IF env.ctor = "raises" THEN Raised(None, "Exception")
    ELSE IF env.init = "raises" THEN Raised(None, "Exception")
    ELSE IF env.init = "true" THEN Returned(name)
    ELSE Returned(None)

\* except ImportError alone.
ExceptReturnsNone_ImportOnly(r) ==
    IF r.raised /\ r.exc = "ImportError" THEN Returned(None) ELSE r

\* except ImportError: return None / except Exception: return None
ExceptReturnsNone(r) == IF r.raised THEN Returned(None) ELSE r

\* AIProviderManager.create_provider(provider_name, api_key=...)
ManagerCreateProvider(name, env) ==
    IF name \in {"anthropic", "openai"} THEN ExceptReturnsNone(TryCreate(name, env))
    ELSE Returned(None)

\* Store._create_provider(provider_name) in that environment.
StoreCreateProvider(name, env) ==
    IF env.key # "set" THEN CreateProvider(name, "nokey")
    ELSE LET r == ManagerCreateProvider(name, env) IN
         IF r.raised THEN [provider |-> None, error |-> r.exc]
         ELSE CreateProvider(name, IF r.value = None THEN "failed" ELSE "ok")

InitCreate ==
    /\ instructions = ""
    /\ running = FALSE
    /\ error = None
    /\ run_history = <<>>
    /\ ai_provider = None
    /\ current_provider_name \in CreateNames
    /\ last_tool_use_id = None
    /\ computer_control = NewControl(1280, 800, <<0, 0>>)
    /\ pc = [w \in Workers |-> "idle"]
    /\ locals = [w \in Workers |-> NoLocals]
    /\ log = [w \in Workers |-> <<>>]
    /\ \E env \in Environments :
          ui = [op |-> "call",
                value |-> [name |-> current_provider_name, env |-> env,
                           registry |-> "not called", result |-> Returned(Absent)]]
    /\ calls = [run_agent |-> 0, ui |-> 0, get_next_action |-> 0]
    /\ obs = [w \in Workers |-> NoObs]

ManagerCreate ==
    /\ ui.op = "call"
    /\ ui' = [op |-> "create_provider",
              value |-> [ui.value EXCEPT
                            !.registry = "called",
                            !.result = ManagerCreateProvider(ui.value.name, ui.value.env)]]
    /\ UNCHANGED <<computer_control, store, pc, locals, log, calls, obs>>

StoreCreate ==
    /\ ui.op = "call"
    /\ LET made == StoreCreateProvider(ui.value.name, ui.value.env) IN
       /\ ai_provider' = made.provider
       /\ error' = IF made.error = Absent THEN error ELSE made.error
       /\ ui' = [op |-> "_create_provider",
                 value |-> [ui.value EXCEPT
                               !.registry = IF ui.value.env.key = "set" THEN "called"
                                            ELSE "not called",
                               !.result = Returned(made.provider)]]
    /\ UNCHANGED <<computer_control, instructions, running, run_history, current_provider_name,
                   last_tool_use_id, pc, locals, log, calls, obs>>

SpecCreate == InitCreate /\ [][ManagerCreate \/ StoreCreate]_vars

\* C19: create_provider raises nothing; it returns None for a name the
\* registry does not know, for a missing package or a failed import, for a
\* constructor or an initialize() that raises and for an initialize() that
\* returns false, and it returns a provider only when initialize() returned
\* true.
C19_CreateProviderTotal ==
    ui.op = "create_provider" =>
        LET name == ui.value.name
            env == ui.value.env
            r == ui.value.result
            broken == \/ name \notin {"anthropic", "openai"}
                      \/ name = "openai" /\ env.package = "missing"
                      \/ env.import # "ok"
                      \/ env.ctor = "raises"
                      \/ env.init # "true"
        IN /\ ~r.raised
           /\ broken => r.value = None
           /\ r.value # None => (r.value = name /\ env.init = "true")
           /\ ~broken => r.value = name

\* The constructor raised (not an ImportError) and create_provider returned
\* None.
C19_Witness ==
    /\ ui.op = "create_provider"
    /\ ui.value.name = "openai"
    /\ ui.value.env.import = "ok" /\ ui.value.env.package = "installed"
    /\ ui.value.env.ctor = "raises"
    /\ ui.value.result = Returned(None)

\* C20: for every provider name, when <NAME>_API_KEY is unset or empty
\* _create_provider returns None without calling the registry and leaves in
\* Store.error the message that names the variable <NAME>_API_KEY.
ExpectedVariable(name) ==
    IF name = "anthropic" THEN "ANTHROPIC_API_KEY"
    ELSE IF name = "openai" THEN "OPENAI_API_KEY"
    ELSE "GEMINI_API_KEY"

C20_MissingKeyReported ==
    (ui.op = "_create_provider" /\ ui.value.env.key \in {"unset", "empty"}) =>
        /\ ui.value.result = Returned(None)
        /\ ai_provider = None
        /\ ui.value.registry = "not called"
        /\ error = "No API key found for " \o ui.value.name \o " provider. Please set "
                   \o ExpectedVariable(ui.value.name) \o " in your .env file."

\* GEMINI_API_KEY is empty: nothing was created and the error names it.
C20_Witness ==
    /\ ui.op = "_create_provider"
    /\ ui.value.name = "gemini" /\ ui.value.env.key = "empty"
    /\ ai_provider = None
    /\ error = "No API key found for gemini provider. Please set GEMINI_API_KEY in your .env file."

\* The call OpenAIProvider.extract_action decoded, once it has returned or
\* raised.
DecodedByOpenAI == pc[1] = "decoded" /\ ai_provider = "openai"
DecodedCall == locals[1].message.tool_calls[1]

\* C21: for a finish_run call whose arguments are an object with success (and
\* possibly error), extract_action returns a finish action carrying the same
\* success flag and the same error value.
C21_FinishCarriesArguments ==
    (/\ DecodedByOpenAI
     /\ DecodedCall.name = "finish_run"
     /\ DecodedCall.arguments.json = "object"
     /\ "success" \in DecodedCall.arguments.has) =>
        /\ locals[1].action.type = "finish"
        /\ "success" \in locals[1].action.has
        /\ locals[1].action.success = DecodedCall.arguments.success
        /\ "error" \in DecodedCall.arguments.has =>
               locals[1].action.error = DecodedCall.arguments.error

\* C22: the decode table.  Unknown tool: Error 'Unexpected tool: <name>'; a
\* mouse_move or left_click_drag whose coordinate is absent or no 2-element
\* list: Error 'Invalid coordinate for mouse action'; type or key without
\* text: Error 'Missing text for keyboard action'; an action outside the ten
\* known types: an Error; any other well-formed computer call: the action of
\* that type with the same x, y or text.
C22_DecodeTable ==
    DecodedByOpenAI =>
        LET name == DecodedCall.name
            args == DecodedCall.arguments
            out == locals[1].action
            returned == locals[1].exc = None
        IN /\ name \notin {"computer", "finish_run"} =>
                  (returned /\ out = ErrorAction("Unexpected tool: " \o name))
           /\ (name = "computer" /\ args.json = "object") =>
                  IF "action" \notin args.has \/ args.action \notin ActionTypes
                  THEN returned /\ out.type = "error"
                  ELSE IF args.action \in CoordinateTypes
                  THEN IF "coordinate" \in args.has /\ IsCoordinate(args.coordinate)
                       THEN returned /\ out = CoordAction(args.action,
                                                          args.coordinate.items[1],
                                                          args.coordinate.items[2])
                       ELSE returned
                            /\ out = ErrorAction("Invalid coordinate for mouse action")
                  ELSE IF args.action \in TextTypes
                  THEN IF "text" \in args.has
                       THEN returned /\ out = TextAction(args.action, args.text)
                       ELSE returned /\ out = ErrorAction("Missing text for keyboard action")
                  ELSE returned /\ out = PlainAction(args.action)

\* C23: every mouse_move or left_click_drag action extract_action returns
\* carries x and y with 0 <= x <= 1280 and 0 <= y <= 800.
C23_CoordinatesInFrame ==
    (DecodedByOpenAI /\ locals[1].action.type \in CoordinateTypes) =>
        /\ {"x", "y"} \subseteq locals[1].action.has
        /\ 0 <= locals[1].action.x /\ locals[1].action.x <= 1280
        /\ 0 <= locals[1].action.y /\ locals[1].action.y <= 800

\* ------------------------------------------------------ coordinate mapping
\* map_from_ai_space and map_to_ai_space on their own: a point of the
\* 1280x800 frame is mapped to the screen and back.
MapBound == 2
Halves == {Rat(2 * k + 1, 2) : k \in 0..MapBound}
Xs == {Whole(k) : k \in (0..MapBound) \cup ((ai_width - MapBound)..ai_width) \cup {640}}
          \cup Halves
Ys == {Whole(k) : k \in (0..MapBound) \cup ((ai_height - MapBound)..ai_height) \cup {400}}
          \cup Halves
Screens == {<<1280, 800>>, <<1920, 1080>>, <<1366, 768>>, <<2560, 1440>>, <<3, 7>>}

InitMap ==
    /\ instructions = ""
    /\ running = FALSE
    /\ error = None
    /\ run_history = <<>>
    /\ ai_provider = None
    /\ current_provider_name = "anthropic"
    /\ last_tool_use_id = None
    /\ \E screen \in Screens, x \in Xs, y \in Ys :
          computer_control = [NewControl(screen[1], screen[2], <<0, 0>>) EXCEPT
                                 !.action = CoordAction("mouse_move", x, y)]
    /\ pc = [w \in Workers |-> "idle"]
    /\ locals = [w \in Workers |-> NoLocals]
    /\ log = [w \in Workers |-> <<>>]
    /\ ui = UIIdle
    /\ calls = [run_agent |-> 0, ui |-> 0, get_next_action |-> 0]
    /\ obs = [w \in Workers |-> NoObs]

\* x, y = self.map_from_ai_space(action['x'], action['y'])
MapFrom ==
    /\ computer_control.steps = 0
    /\ computer_control' =
          [computer_control EXCEPT
              !.steps = 1,
              !.result = MapFromAISpace(computer_control, computer_control.action.x,
                                        computer_control.action.y)]
    /\ UNCHANGED <<store, pc, locals, log, ui, calls, obs>>

\* self.map_to_ai_space(x, y) of the point map_from_ai_space returned
MapTo ==
    /\ computer_control.steps = 1
    /\ computer_control' =
          [computer_control EXCEPT
              !.steps = 2,
              !.result = MapToAISpace(computer_control, computer_control.result[1],
                                      computer_control.result[2])]
    /\ UNCHANGED <<store, pc, locals, log, ui, calls, obs>>

SpecMap == InitMap /\ [][MapFrom \/ MapTo]_vars

\* The product of two rationals.
RatTimes(a, b) == Rat(a.n * b.n, a.d * b.d)

\* C24: for every point (x, y) of the frame and every screen of positive
\* size, map_from_ai_space(x, y) is (x * screen_width / 1280,
\* y * screen_height / 800) and map_to_ai_space of that point is (x, y) again,
\* exactly, in rational arithmetic.
C24_MappingRoundTrips ==
    LET cc == computer_control IN
    /\ cc.steps = 1 =>
          cc.result = <<RatTimes(cc.action.x, Rat(cc.screen_width, ai_width)),
                        RatTimes(cc.action.y, Rat(cc.screen_height, ai_height))>>
    /\ cc.steps = 2 => cc.result = <<cc.action.x, cc.action.y>>

\* A point off the diagonal of a screen whose aspect differs from the
\* frame's has been mapped there and back.
C24_Witness ==
    /\ computer_control.steps = 2
    /\ computer_control.screen_width = 1920
    /\ computer_control.screen_height = 1080
    /\ computer_control.action.x = Whole(1279)
    /\ computer_control.action.y = Rat(3, 2)
    /\ computer_control.result = <<Whole(1279), Rat(3, 2)>>

\* ------------------------------------------------- perform_action sequences
\* ComputerControl on its own: perform_action is called with one action after
\* another, and between two calls the pointer may be moved from outside (the
\* user's hand, a window that takes the focus).
MaxActions == 3
AIPoints == {<<0, 0>>, <<640, 400>>, <<1280, 800>>}
Pointers == {<<0, 0>>, <<10, 10>>, <<960, 540>>}
ControlScreens == {<<1280, 800>>, <<1920, 1080>>}
ControlActions ==
    {PlainAction(t) : t \in PlainTypes}
        \cup {CoordAction(t, p[1], p[2]) : t \in CoordinateTypes, p \in AIPoints}
        \cup {TextAction("type", "cats"), TextAction("key", "enter")}

InitComputer ==
    /\ instructions = ""
    /\ running = FALSE
    /\ error = None
    /\ run_history = <<>>
    /\ ai_provider = None
    /\ current_provider_name = "anthropic"
    /\ last_tool_use_id = None
    /\ \E screen \in ControlScreens, cursor \in Pointers :
          computer_control = NewControl(screen[1], screen[2], cursor)
    /\ pc = [w \in Workers |-> "idle"]
    /\ locals = [w \in Workers |-> NoLocals]
    /\ log = [w \in Workers |-> <<>>]
    /\ ui = UIIdle
    /\ calls = [run_agent |-> 0, ui |-> 0, get_next_action |-> 0]
    /\ obs = [w \in Workers |-> NoObs]

\* computer_control.perform_action(action)
ControlPerform ==
    /\ computer_control.steps < MaxActions
    /\ \E action \in ControlActions :
          computer_control' = PerformOn(computer_control, action)
    /\ UNCHANGED <<store, pc, locals, log, ui, calls, obs>>

\* The pointer is moved from outside; pyautogui.position() reads where it is.
PointerMoved ==
    /\ \E p \in Pointers :
          /\ p # computer_control.cursor
          /\ computer_control' = [computer_control EXCEPT !.cursor = p]
    /\ UNCHANGED <<store, pc, locals, log, ui, calls, obs>>

SpecComputer == InitComputer /\ [][ControlPerform \/ PointerMoved]_vars

\* The perform_action call of this step is a 'type' action.
TypeStep ==
    /\ computer_control'.steps = computer_control.steps + 1
    /\ computer_control'.action.type = "type"

\* The extra click of a 'type' action: issued at the recorded position, before
\* the text, exactly when a position is recorded and the pointer is elsewhere.
TypeClicksWhenMoved ==
    TypeStep =>
        LET cc == computer_control
            click == OSCall("click", cc.last_click_position, Absent)
            write == OSCall("write", Absent, computer_control'.action.text)
        IN IF cc.last_click_position # NoPosition /\ cc.cursor # cc.last_click_position
           THEN computer_control'.issued = <<click, write>>
           ELSE computer_control'.issued = <<write>>

\* C25: a 'type' action issues a click at the recorded position before the
\* text when a position is recorded and the pointer is elsewhere, and no extra
\* click otherwise; and the recorded position is always the pointer position
\* at the most recent click action.
C25_TypeReclicksLastClick ==
    /\ [](computer_control.last_click_position = computer_control.clicked)
    /\ [][TypeClicksWhenMoved]_vars

\* C26: the tool_use_id of a tool_result entry is the id of the tool call
\* whose action was extracted and performed in that turn (the first tool call
\* of the response), whatever number of tool calls the response carries.
\* Stated for runs during which the provider was not switched.
C26_ToolResultNamesExecutedCall ==
    [][\A w \in Workers :
          (/\ pc[w] = "L218"
           /\ pc'[w] = "L189"
           /\ obs[w].switches = 0
           /\ Len(run_history') = Len(run_history) + 1) =>
              Last(run_history').id = locals[w].message.tool_calls[1].id]_vars

\* C27: a set_ai_provider call whose provider could not be created leaves
\* current_provider_name and ai_provider as they were before the call.
C27_FailedSwitchChangesNothing ==
    [][/\ (ui = UIIdle /\ ui'.op = "set_ai_provider" /\ ui'.value = None) =>
              current_provider_name' = current_provider_name
       /\ (ui.op = "set_ai_provider" /\ ui.value = None /\ ui' = UIIdle) =>
              ai_provider' = ai_provider]_vars

\* C28: within one turn the provider that display_assistant_message and
\* extract_action are called on, and whose last_tool_use_id is read for the
\* tool result, is the provider whose get_next_action returned the turn's
\* message, whenever set_ai_provider is called meanwhile.
C28_OneProviderPerTurn ==
    [][\A w \in Workers :
          (pc[w] \in {"L196", "L198", "L218"} /\ pc'[w] # pc[w]) =>
              ai_provider = locals[w].message.kind]_vars

\* C29: in every history a tool_result entry comes directly after the
\* assistant response whose tool call produced it, and no assistant response
\* and no tool result follows the 'Agent run stopped by user.' entry.
C29_HistoryOrderedUnderStop ==
    \A i \in 1..Len(run_history) :
        /\ run_history[i].t = "tool_result" =>
              (i > 1 /\ run_history[i - 1].t = "response")
        /\ run_history[i] = StoppedEntry =>
              \A j \in (i + 1)..Len(run_history) :
                  run_history[j].t \notin {"response", "tool_result"}

\* C30: whenever run_agent is about to call get_next_action on the
\* OpenAI-style adapter, in a run that was neither stopped nor switched to
\* another provider, the adapter accepts run_history as it is: the call does
\* not raise on account of the history.
C30_OpenAIAcceptsOwnHistory ==
    \A w \in Workers :
        (/\ pc[w] = "L191"
         /\ ai_provider = "openai"
         /\ obs[w].switches = 0
         /\ obs[w].stops = 0) =>
            OpenAIHistoryAccepted(run_history)

====
